---- MODULE Spec2Model ----
(***************************************************************************)
(* qbittorrent-cleaner: the two purge loops of the repository.             *)
(*   variant "env"  : src/main.py                (expression rules)        *)
(*   variant "file" : src/qbittorrent-cleaner.py (threshold rules)         *)
(* Durations and timestamps are in abstract clock ticks; ratios are in     *)
(* tenths (10 stands for 1.0).                                             *)
(***************************************************************************)
EXTENDS Integers, Sequences, FiniteSets, TLC

VARIABLES
    variant,       \* which of the two programs runs
    pc,            \* position of the __main__ loop
    now,           \* time.time()
    RULES_ENV,     \* main.py: PURGE_RULES, a sequence of tokens
    active_rules,  \* main.py: the rules parsed once at start
    DRY_RUN,       \* main.py: module constant read from the environment
    DELETE_FILES,  \* main.py: module constant read from the environment
    cfgfile,       \* cleaner: what is on disk at CONFIG_PATH
    config,        \* cleaner: the dict load_config returned in this cycle
    remote,        \* hashes of the torrents the remote client holds
    torrents,      \* the list torrents_info returned in this cycle
    to_delete,     \* the deletion batch of this cycle
    calls,         \* requests sent to the remote client in this cycle
    sent,          \* the torrents_delete requests of this cycle
    log,           \* log lines of this cycle
    slept,         \* the argument of the last time.sleep
    CHECK_INTERVAL,\* main.py: module constant read from the environment
    args,          \* check_rules called on its own: the arguments
    ret            \* check_rules called on its own: the outcome

vars == <<variant, pc, now, RULES_ENV, active_rules, DRY_RUN, DELETE_FILES,
          cfgfile, config, remote, torrents, to_delete, calls, sent, log,
          slept, CHECK_INTERVAL, args, ret>>

\* ---------------------------------------------------------------- bounds
MaxTorrents == 2   \* torrents the remote client holds at start
MaxNow == 4        \* horizon of the clock
MaxStat == 2       \* range of the stats and thresholds given to check_rules

\* ------------------------------------------------------- python values
\* An optional value: None is the empty tuple, a present value v is <<v>>.
None == <<>>
Some(v) == <<v>>

\* Python truthiness of an optional number (None and 0 are falsy).
Truthy(o) == o # None /\ o[1] # 0

\* dict.get(key, default)
Get(d, key, default) == IF key \in DOMAIN d THEN d[key] ELSE default

\* The outcome of a call: a returned value or a raised exception.
Returned(v) == [raised |-> FALSE, value |-> v]
Raised == [raised |-> TRUE, value |-> FALSE]

Min(a, b) == IF a <= b THEN a ELSE b

\* mutant: the clock is read whenever completion_on is usable
seed_time_clock(torrent, t) ==
    IF Truthy(torrent.completion_on)
    THEN Some(t - torrent.completion_on[1])
    ELSE torrent.seeding_time

\* ------------------------------------------------ effective seeding time
\* seed_time = torrent.get('seeding_time'); replaced by now - completion_on
\* when it is falsy and completion_on is truthy. May stay None.
seed_time(torrent, t) ==
    IF ~Truthy(torrent.seeding_time) /\ Truthy(torrent.completion_on)
    THEN Some(t - torrent.completion_on[1])
    ELSE torrent.seeding_time

\* ------------------------------------------- cleaner: check_rules
\* mutant: a threshold is met only by the exact value
threshold_exact(minimum, value) == minimum > 0 /\ value = minimum

\* ratio_met / vol_met of check_rules
threshold_met(minimum, value) == minimum > 0 /\ value >= minimum

\* mutant: the time-only shortcut tests for 0 instead of a negative value
only_time_zero(min_ratio, min_vol) == min_ratio = 0 /\ min_vol = 0

\* "If both are -1, we only cared about time"
only_time(min_ratio, min_vol) == min_ratio < 0 /\ min_vol < 0

\* mutant: the time gate compares the wrong way round
time_gate_reversed(st, min_time) == st > min_time

\* the mandatory time gate: seed_time < min_time
time_gate_closed(st, min_time) == st < min_time

check_rules(torrent, rules, t) ==
    LET min_time == Get(rules, "min_seed_time", 0)
        min_ratio == Get(rules, "min_ratio", -1)
        min_vol == Get(rules, "min_volume_bytes", -1)
        st == seed_time(torrent, t)
    IN  IF st = None THEN Raised            \* None < int: TypeError
        ELSE IF time_gate_closed(st[1], min_time) THEN Returned(FALSE)
        ELSE IF only_time(min_ratio, min_vol) THEN Returned(TRUE)
        ELSE Returned(threshold_met(min_ratio, torrent.ratio)
                      \/ threshold_met(min_vol, torrent.uploaded))

\* ------------------------------------------------ main.py: parse_rules
\* PURGE_RULES is a sequence of tokens: ",", "|", " " and runs of other
\* characters. str.split, str.strip and the join back into a str:
IndexOf(s, tok) ==
    IF \E i \in 1..Len(s) : s[i] = tok
    THEN CHOOSE i \in 1..Len(s) : s[i] = tok /\ \A j \in 1..(i - 1) : s[j] # tok
    ELSE 0

RECURSIVE Split(_, _)
Split(s, sep) ==
    LET i == IndexOf(s, sep)
    IN  IF i = 0 THEN <<s>>
        ELSE <<SubSeq(s, 1, i - 1)>> \o Split(SubSeq(s, i + 1, Len(s)), sep)

RECURSIVE Strip(_)
Strip(s) ==
    IF s = <<>> THEN s
    ELSE IF s[1] = " " THEN Strip(Tail(s))
    ELSE IF s[Len(s)] = " " THEN Strip(SubSeq(s, 1, Len(s) - 1))
    ELSE s

RECURSIVE Text(_)
Text(s) == IF s = <<>> THEN "" ELSE s[1] \o Text(Tail(s))

\* mutant: a category already in rules keeps its first expression
parse_block_first_wins(rules, block) ==
    LET i == IndexOf(block, "|")
    IN  IF i = 0 THEN rules
        ELSE rules @@ (Text(Strip(SubSeq(block, 1, i - 1)))
                          :> Text(Strip(SubSeq(block, i + 1, Len(block)))))

\* one block of the loop of parse_rules: rules[cat_name.strip()] = expression.strip()
parse_block(rules, block) ==
    LET i == IndexOf(block, "|")
    IN  IF i = 0 THEN rules
        ELSE (Text(Strip(SubSeq(block, 1, i - 1)))
                 :> Text(Strip(SubSeq(block, i + 1, Len(block))))) @@ rules

RECURSIVE parse_blocks(_, _)
parse_blocks(rules, blocks) ==
    IF blocks = <<>> THEN rules
    ELSE parse_blocks(parse_block(rules, Strip(blocks[1])), Tail(blocks))

parse_rules(env_string) ==
    IF env_string = <<>> THEN <<>>
    ELSE parse_blocks(<<>>, Split(env_string, ","))

\* ---------------------------------------------- main.py: evaluate_rule
\* The expressions the model runs, compiled as eval() compiles them; any
\* other text does not compile (SyntaxError).
Var(n) == <<"var", n>>
Num(n) == <<"num", n>>

Compile(expression) ==
    CASE expression = "time > 2 and ratio > 10" ->
            <<"and", <<"gt", Var("time"), Num(2)>>, <<"gt", Var("ratio"), Num(10)>>>>
      [] expression = "ratio > 10 and time >= 2" ->
            <<"and", <<"gt", Var("ratio"), Num(10)>>, <<"ge", Var("time"), Num(2)>>>>
      [] expression = "uploaded >= 1000 or seeds < 1" ->
            <<"or", <<"ge", Var("uploaded"), Num(1000)>>, <<"lt", Var("seeds"), Num(1)>>>>
      [] expression = "size > 0 and bogus > 0" ->
            <<"and", <<"gt", Var("size"), Num(0)>>, <<"gt", Var("bogus"), Num(0)>>>>
      [] expression = "seeds < 1" ->
            <<"lt", Var("seeds"), Num(1)>>
      [] OTHER -> <<"syntax">>

\* a name or a literal: NameError for a name outside allowed_names
EvalTerm(term, names) ==
    IF term[1] = "num" THEN Returned(Some(term[2]))
    ELSE IF term[2] \in DOMAIN names THEN Returned(names[term[2]])
    ELSE Raised

\* a comparison: TypeError when an operand is None
Compare(op, a, b) ==
    IF a.raised \/ b.raised THEN Raised
    ELSE IF a.value = None \/ b.value = None THEN Raised
    ELSE Returned(CASE op = "gt" -> a.value[1] > b.value[1]
                    [] op = "ge" -> a.value[1] >= b.value[1]
                    [] op = "lt" -> a.value[1] < b.value[1])

RECURSIVE Eval(_, _)
Eval(e, names) ==
    CASE e[1] = "syntax" -> Raised
      [] e[1] = "and" ->
            LET l == Eval(e[2], names)
            IN  IF l.raised THEN Raised
                ELSE IF ~l.value THEN Returned(FALSE)
                ELSE Eval(e[3], names)
      [] e[1] = "or" ->
            LET l == Eval(e[2], names)
            IN  IF l.raised THEN Raised
                ELSE IF l.value THEN Returned(TRUE)
                ELSE Eval(e[3], names)
      [] OTHER -> Compare(e[1], EvalTerm(e[2], names), EvalTerm(e[3], names))

\* eval(expression, {"__builtins__": None}, allowed_names)
py_eval(expression, names) == Eval(Compile(expression), names)

\* mutant: no try/except around eval
evaluate_rule_uncaught(expression, stats) == py_eval(expression, stats)

\* try: return eval(...)  except Exception: log, return False
evaluate_rule(expression, stats) ==
    LET r == py_eval(expression, stats)
    IN  IF r.raised THEN Returned(FALSE) ELSE r

\* "3. Gather Stats" of process_torrents
gather_stats(torrent, t) ==
    [time |-> seed_time(torrent, t),
     ratio |-> Some(torrent.ratio),
     uploaded |-> Some(torrent.uploaded),
     size |-> Some(torrent.total_size),
     seeds |-> Some(torrent.num_seeds)]

\* ------------------------------------------------------ the remote client
\* What torrents_info reports for each torrent the model lets the client hold.
Torrent(h, cat, left, st, co, r, up) ==
    [hash |-> h, category |-> cat, amount_left |-> left, seeding_time |-> st,
     completion_on |-> co, ratio |-> r, uploaded |-> up,
     total_size |-> 700, num_seeds |-> 0]

Catalog ==
    << Torrent("h1", "radarr", 0, Some(5), Some(1), 30, 2000),  \* seeded well
       Torrent("h2", "radarr", 7, Some(9), None, 99, 9999),     \* incomplete
       Torrent("h3", "lidarr", 0, Some(9), Some(1), 99, 9999),  \* category without rule
       Torrent("h4", "radarr", 0, None, Some(1), 30, 2000),     \* no seeding_time reported
       Torrent("h5", "radarr", 0, None, None, 30, 2000),        \* neither time reported
       Torrent("h6", "", 0, Some(9), Some(1), 99, 9999),        \* no category
       Torrent("h7", "radarr", 0, Some(5), Some(1), 5, 10) >>   \* seeded little

Hashes == {Catalog[i].hash : i \in 1..Len(Catalog)}

\* client.torrents_info(): the torrents the client holds now
torrents_info(held) == SelectSeq(Catalog, LAMBDA t : t.hash \in held)

\* hashes = [t.hash for t in to_delete]
hashes_of(batch) == [i \in 1..Len(batch) |-> batch[i].hash]

\* ------------------------------------------------------- configurations
\* main.py: values PURGE_RULES takes in the model.
RuleStrings ==
    { <<>>,
      <<"radarr", "|", "time > 2 and ratio > 10">>,
      <<"radarr", "|", "size > 0 and bogus > 0", ",", " ", "lidarr", "|", "time >">>,
      <<"radarr", "|", "ratio > 10 and time >= 2", ",", "|", "seeds < 1">>,
      <<"nopipe", ",", "radarr", "|", "time >", ",", " ", "radarr", " ", "|", " ",
        "uploaded >= 1000 or seeds < 1">> }

\* 3600 s and 60 s, in ticks of 60 s
DefaultInterval == 60
RetryDelay == 1

\* cleaner: what CONFIG_PATH holds: no file, a file yaml cannot load, an
\* empty file (safe_load returns None), or one of the documents below.
ConfigFiles == {"missing", "malformed", "empty", "A", "B", "C", "D"}

\* yaml.safe_load(f) of the loadable documents
safe_load(file) ==
    CASE file = "A" ->
           [settings |-> ("dry_run" :> FALSE @@ "delete_files" :> TRUE
                          @@ "check_interval" :> 1),
            rules |-> ("radarr" :> ("min_seed_time" :> 2 @@ "min_ratio" :> 20
                                    @@ "min_volume_bytes" :> -1))]
      [] file = "B" ->
           [settings |-> ("check_interval" :> 2),
            rules |-> ("radarr" :> ("min_seed_time" :> 2)
                       @@ "default" :> ("min_seed_time" :> 0 @@ "min_ratio" :> -1
                                        @@ "min_volume_bytes" :> 1000))]
      [] file = "C" ->
           [settings |-> ("dry_run" :> FALSE),
            rules |-> ("radarr" :> ("min_seed_time" :> 0 @@ "min_ratio" :> 0
                                    @@ "min_volume_bytes" :> -1)
                       @@ "lidarr" :> <<>>)]
      [] file = "D" ->
           [settings |-> ("dry_run" :> TRUE @@ "delete_files" :> TRUE),
            rules |-> <<>>]

\* ------------------------------------------------- process_torrents, loop
\* mutant: the completion check is dropped
incomplete_dropped(torrent) == FALSE

\* "if torrent.amount_left > 0: continue"
incomplete(torrent) == torrent.amount_left > 0

\* main.py: "if cat not in rules: continue"
has_rule(cat, rules) == cat \in DOMAIN rules

\* mutant: without 'default', any rule set of the map stands in for it
resolve_rule_set_any(cat, rules_map) ==
    IF cat \in DOMAIN rules_map THEN Some(rules_map[cat])
    ELSE IF DOMAIN rules_map # {}
    THEN Some(rules_map[CHOOSE k \in DOMAIN rules_map : TRUE])
    ELSE None

\* cleaner: "Determine which rules apply"; None when neither the category
\* nor 'default' is a key
resolve_rule_set(cat, rules_map) ==
    IF cat \in DOMAIN rules_map THEN Some(rules_map[cat])
    ELSE IF "default" \in DOMAIN rules_map THEN Some(rules_map["default"])
    ELSE None

\* cleaner: "if not rule_set: continue" (None, or an empty dict)
no_rule_set(rule_set) == rule_set = None \/ DOMAIN rule_set[1] = {}

\* main.py: the for loop of process_torrents; acc is to_delete
RECURSIVE select_env(_, _, _, _)
select_env(ts, rules, t, acc) ==
    IF ts = <<>> THEN Returned(acc)
    ELSE LET torrent == Head(ts)
         IN  IF ~has_rule(torrent.category, rules)
             THEN select_env(Tail(ts), rules, t, acc)
             ELSE IF incomplete(torrent)
             THEN select_env(Tail(ts), rules, t, acc)
             ELSE LET r == evaluate_rule(rules[torrent.category],
                                         gather_stats(torrent, t))
                  IN  IF r.raised THEN Raised
                      ELSE IF r.value
                      THEN select_env(Tail(ts), rules, t, Append(acc, torrent))
                      ELSE select_env(Tail(ts), rules, t, acc)

\* cleaner: the for loop of process_torrents; acc is to_delete
RECURSIVE select_file(_, _, _, _)
select_file(ts, rules_map, t, acc) ==
    IF ts = <<>> THEN Returned(acc)
    ELSE LET torrent == Head(ts)
             rule_set == resolve_rule_set(torrent.category, rules_map)
         IN  IF incomplete(torrent)
             THEN select_file(Tail(ts), rules_map, t, acc)
             ELSE IF no_rule_set(rule_set)
             THEN select_file(Tail(ts), rules_map, t, acc)
             ELSE LET r == check_rules(torrent, rule_set[1], t)
                  IN  IF r.raised THEN Raised
                      ELSE IF r.value
                      THEN select_file(Tail(ts), rules_map, t, Append(acc, torrent))
                      ELSE select_file(Tail(ts), rules_map, t, acc)

\* ------------------------------------------------------------ the loops
NoConfig == [settings |-> <<>>, rules |-> <<>>]
NoCalls == [auth |-> 0, info |-> 0, delete |-> 0]

Init ==
    /\ variant \in {"env", "file"}
    /\ pc = "loop"
    /\ now = 2
    /\ slept = 0
    /\ IF variant = "env"
       THEN /\ RULES_ENV \in RuleStrings
            /\ DRY_RUN \in BOOLEAN
            /\ DELETE_FILES \in BOOLEAN
            /\ CHECK_INTERVAL \in {1, DefaultInterval}
            /\ cfgfile = "missing"
       ELSE /\ RULES_ENV = <<>>
            /\ DRY_RUN = TRUE
            /\ DELETE_FILES = FALSE
            /\ CHECK_INTERVAL = DefaultInterval
            /\ cfgfile \in ConfigFiles
    /\ active_rules = parse_rules(RULES_ENV)
    /\ config = NoConfig
    /\ remote \in {S \in SUBSET Hashes : Cardinality(S) <= MaxTorrents}
    /\ torrents = <<>>
    /\ to_delete = <<>>
    /\ calls = NoCalls
    /\ sent = <<>>
    /\ log = <<>>
    /\ args = <<>>
    /\ ret = <<>>

environment == <<RULES_ENV, active_rules, DRY_RUN, DELETE_FILES, CHECK_INTERVAL>>
standalone == <<args, ret>>

\* a new iteration of "while True" starts: the locals of the last one are gone
NewCycle ==
    /\ torrents' = <<>>
    /\ to_delete' = <<>>
    /\ calls' = NoCalls
    /\ sent' = <<>>

\* time.sleep(seconds): the clock moves on, up to the horizon of the model
Sleeping(seconds) ==
    /\ slept' = seconds
    /\ now' = Min(now + seconds, MaxNow)

\* mutant: the cleaner reads dry_run from the file again when it needs it
dry_run_reread ==
    IF variant = "env" THEN DRY_RUN
    ELSE IF cfgfile \in {"A", "B", "C", "D"}
    THEN Get(safe_load(cfgfile).settings, "dry_run", TRUE)
    ELSE Get(config.settings, "dry_run", TRUE)

\* the settings process_torrents and __main__ use in this cycle
dry_run ==
    IF variant = "env" THEN DRY_RUN ELSE Get(config.settings, "dry_run", TRUE)
delete_files ==
    IF variant = "env" THEN DELETE_FILES
    ELSE Get(config.settings, "delete_files", FALSE)
interval ==
    IF variant = "env" THEN CHECK_INTERVAL
    ELSE Get(config.settings, "check_interval", DefaultInterval)

\* main.py: top of the loop, "if active_rules:"
EnvLoop ==
    /\ variant = "env" /\ pc = "loop"
    /\ NewCycle
    /\ log' = <<>>
    /\ pc' = IF active_rules # <<>> THEN "connect" ELSE "sleep"
    /\ UNCHANGED <<variant, now, slept, environment, cfgfile, config, remote,
                   standalone>>

\* cleaner: top of the loop, config = load_config(); "if config:"
LoadConfig ==
    /\ variant = "file" /\ pc = "loop"
    /\ NewCycle
    /\ CASE cfgfile = "missing" ->
              /\ log' = <<"config_not_found", "config_failed">>
              /\ pc' = "retry_sleep"
              /\ config' = config
         [] cfgfile = "empty" ->
              /\ log' = <<"config_failed">>
              /\ pc' = "retry_sleep"
              /\ config' = config
         [] cfgfile = "malformed" ->
              /\ log' = <<>>
              /\ pc' = "crashed"
              /\ config' = config
         [] OTHER ->
              /\ log' = <<>>
              /\ pc' = "connect"
              /\ config' = safe_load(cfgfile)
    /\ UNCHANGED <<variant, now, slept, environment, cfgfile, remote, standalone>>

\* get_client: Client(...) and auth_log_in() succeed
GetClientOk ==
    /\ pc = "connect"
    /\ calls' = [calls EXCEPT !.auth = @ + 1]
    /\ pc' = "info"
    /\ UNCHANGED <<variant, now, slept, environment, cfgfile, config, remote,
                   torrents, to_delete, sent, log, standalone>>

\* mutant: "if qbt:" is missing, process_torrents runs after a failed login
GetClientFail_unchecked ==
    /\ pc = "connect"
    /\ calls' = [calls EXCEPT !.auth = @ + 1]
    /\ log' = Append(log, "connect_failed")
    /\ pc' = "info"
    /\ UNCHANGED <<variant, now, slept, environment, cfgfile, config, remote,
                   torrents, to_delete, sent, standalone>>

\* get_client: an exception is caught, None is returned; "if qbt:" fails
GetClientFail ==
    /\ pc = "connect"
    /\ calls' = [calls EXCEPT !.auth = @ + 1]
    /\ log' = Append(log, "connect_failed")
    /\ pc' = "sleep"
    /\ UNCHANGED <<variant, now, slept, environment, cfgfile, config, remote,
                   torrents, to_delete, sent, standalone>>

\* process_torrents: client.torrents_info() returns
TorrentsInfoOk ==
    /\ pc = "info"
    /\ calls' = [calls EXCEPT !.info = @ + 1]
    /\ torrents' = torrents_info(remote)
    /\ log' = Append(log, "starting")
    /\ pc' = "eval"
    /\ UNCHANGED <<variant, now, slept, environment, cfgfile, config, remote,
                   to_delete, sent, standalone>>

\* process_torrents: client.torrents_info() raises; logged, return
TorrentsInfoFail ==
    /\ pc = "info"
    /\ calls' = [calls EXCEPT !.info = @ + 1]
    /\ log' = log \o <<"starting", "fetch_failed">>
    /\ pc' = "sleep"
    /\ UNCHANGED <<variant, now, slept, environment, cfgfile, config, remote,
                   torrents, to_delete, sent, standalone>>

\* the for loop of process_torrents, as the running variant runs it
select ==
    IF variant = "env" THEN select_env(torrents, active_rules, now, <<>>)
    ELSE select_file(torrents, config.rules, now, <<>>)

\* main.py: evaluate_rule logged a "Rule Logic Error" for this torrent
rule_error(torrent) ==
    /\ has_rule(torrent.category, active_rules)
    /\ ~incomplete(torrent)
    /\ py_eval(active_rules[torrent.category], gather_stats(torrent, now)).raised

\* process_torrents: the for loop, then "if not to_delete: ... return" and
\* the "Found N torrents to purge" line
Evaluate ==
    /\ pc = "eval"
    /\ LET r == select
           errors == IF variant = "env"
                        /\ \E i \in 1..Len(torrents) : rule_error(torrents[i])
                     THEN <<"rule_error">> ELSE <<>>
       IN  IF r.raised
           THEN /\ pc' = "crashed"
                /\ UNCHANGED <<to_delete, log>>
           ELSE /\ to_delete' = r.value
                /\ IF r.value = <<>>
                   THEN /\ log' = log \o errors \o <<"none_matched">>
                        /\ pc' = "sleep"
                   ELSE /\ log' = log \o errors \o <<"found">>
                        /\ pc' = "execute"
    /\ UNCHANGED <<variant, now, slept, environment, cfgfile, config, remote,
                   torrents, calls, sent, standalone>>

\* process_torrents: "[DRY RUN] No actions taken."
ExecuteDryRun ==
    /\ pc = "execute" /\ dry_run
    /\ log' = Append(log, "dry_run")
    /\ pc' = "sleep"
    /\ UNCHANGED <<variant, now, slept, environment, cfgfile, config, remote,
                   torrents, to_delete, calls, sent, standalone>>

\* mutant: the request names every torrent of the snapshot
delete_request_snapshot(ok) ==
    [hashes |-> hashes_of(torrents), delete_files |-> delete_files, ok |-> ok]

\* the request client.torrents_delete(torrent_hashes=hashes, delete_files=...)
delete_request(ok) ==
    [hashes |-> hashes_of(to_delete), delete_files |-> delete_files, ok |-> ok]

\* mutant: the delete request is sent whatever dry_run says
DeleteOk_ungated ==
    /\ pc = "execute"
    /\ calls' = [calls EXCEPT !.delete = @ + 1]
    /\ sent' = Append(sent, delete_request(TRUE))
    /\ remote' = remote \ {to_delete[i].hash : i \in 1..Len(to_delete)}
    /\ log' = Append(log, "deleted")
    /\ pc' = "sleep"
    /\ UNCHANGED <<variant, now, slept, environment, cfgfile, config, torrents,
                   to_delete, standalone>>

\* process_torrents: torrents_delete succeeds
DeleteOk ==
    /\ pc = "execute" /\ ~dry_run
    /\ calls' = [calls EXCEPT !.delete = @ + 1]
    /\ sent' = Append(sent, delete_request(TRUE))
    /\ remote' = remote \ {to_delete[i].hash : i \in 1..Len(to_delete)}
    /\ log' = Append(log, "deleted")
    /\ pc' = "sleep"
    /\ UNCHANGED <<variant, now, slept, environment, cfgfile, config, torrents,
                   to_delete, standalone>>

\* where torrents_delete raising leaves each program: main.py catches and
\* logs, the cleaner has no handler up to the top of the process
after_delete_error == IF variant = "env" THEN "sleep" ELSE "crashed"

\* process_torrents: torrents_delete raises
DeleteFail ==
    /\ pc = "execute" /\ ~dry_run
    /\ calls' = [calls EXCEPT !.delete = @ + 1]
    /\ sent' = Append(sent, delete_request(FALSE))
    /\ pc' = after_delete_error
    /\ log' = IF variant = "env" THEN Append(log, "delete_error") ELSE log
    /\ UNCHANGED <<variant, now, slept, environment, cfgfile, config, remote,
                   torrents, to_delete, standalone>>

\* __main__: "Sleeping for ... seconds", time.sleep(interval)
Sleep ==
    /\ pc = "sleep"
    /\ Sleeping(interval)
    /\ pc' = "loop"
    /\ UNCHANGED <<variant, environment, cfgfile, config, remote, torrents,
                   to_delete, calls, sent, log, standalone>>

\* cleaner __main__: "Retrying in 60s", time.sleep(60)
RetrySleep ==
    /\ pc = "retry_sleep"
    /\ Sleeping(RetryDelay)
    /\ pc' = "loop"
    /\ UNCHANGED <<variant, environment, cfgfile, config, remote, torrents,
                   to_delete, calls, sent, log, standalone>>

\* somebody rewrites, removes or creates the file at CONFIG_PATH
EditConfig ==
    /\ variant = "file" /\ pc # "crashed"
    /\ \E f \in ConfigFiles \ {cfgfile} : cfgfile' = f
    /\ UNCHANGED <<variant, pc, now, slept, environment, config, remote,
                   torrents, to_delete, calls, sent, log, standalone>>

Next ==
    \/ EnvLoop
    \/ LoadConfig
    \/ GetClientOk
    \/ GetClientFail
    \/ TorrentsInfoOk
    \/ TorrentsInfoFail
    \/ Evaluate
    \/ ExecuteDryRun
    \/ DeleteOk
    \/ DeleteFail
    \/ Sleep
    \/ RetrySleep
    \/ EditConfig

Spec == Init /\ [][Next]_vars

\* the steps the process itself takes
Program ==
    \/ EnvLoop \/ LoadConfig \/ GetClientOk \/ GetClientFail
    \/ TorrentsInfoOk \/ TorrentsInfoFail \/ Evaluate \/ ExecuteDryRun
    \/ DeleteOk \/ DeleteFail \/ Sleep \/ RetrySleep

\* The process keeps running while it has a step to take (every sleep
\* ends), and the remote client does not fail for ever: a login,
\* a torrents_info and a torrents_delete that are tried again and again
\* eventually succeed.
FairSpec ==
    /\ Spec
    /\ WF_vars(Program)
    /\ SF_vars(GetClientOk)
    /\ SF_vars(TorrentsInfoOk)
    /\ SF_vars(DeleteOk)

\* ------------------------------------------- check_rules called on its own
\* Optional numbers lo..hi
Opt(lo, hi) == {None} \cup {Some(v) : v \in lo..hi}

\* a policy dict with the keys that are given
Policy(mt, mr, mv) ==
    LET given == [min_seed_time |-> mt, min_ratio |-> mr, min_volume_bytes |-> mv]
    IN  [k \in {x \in DOMAIN given : given[x] # None} |-> given[k][1]]

Snapshots ==
    {Torrent("h", "radarr", 0, st, co, r, up) :
        st \in Opt(0, MaxStat), co \in Opt(0, MaxStat),
        r \in -1..MaxStat, up \in 0..MaxStat}

Policies ==
    {Policy(mt, mr, mv) :
        mt \in Opt(0, MaxStat), mr \in Opt(-1, MaxStat), mv \in Opt(-1, MaxStat)}

InitRules ==
    /\ variant = "file"
    /\ pc = "check_rules"
    /\ now \in MaxStat..(MaxStat + 1)
    /\ slept = 0
    /\ RULES_ENV = <<>>
    /\ active_rules = <<>>
    /\ DRY_RUN = TRUE
    /\ DELETE_FILES = FALSE
    /\ CHECK_INTERVAL = DefaultInterval
    /\ cfgfile = "missing"
    /\ config = NoConfig
    /\ remote = {}
    /\ torrents = <<>>
    /\ to_delete = <<>>
    /\ calls = NoCalls
    /\ sent = <<>>
    /\ log = <<>>
    /\ args \in [torrent : Snapshots, rules : Policies]
    /\ ret = <<>>

\* check_rules(torrent, rules) runs and returns or raises
CallCheckRules ==
    /\ pc = "check_rules"
    /\ ret' = <<check_rules(args.torrent, args.rules, now)>>
    /\ pc' = "returned"
    /\ UNCHANGED <<variant, now, slept, environment, cfgfile, config, remote,
                   torrents, to_delete, calls, sent, log, args>>

\* time passes between two calls of check_rules
ClockAdvances ==
    /\ pc = "returned"
    /\ slept' = 1
    /\ now' = now + 1
    /\ pc' = "later"
    /\ UNCHANGED <<variant, environment, cfgfile, config, remote, torrents,
                   to_delete, calls, sent, log, standalone>>

\* check_rules runs a second time on the same torrent and the same rules,
\* at once or after the clock has moved
CallAgain ==
    /\ pc \in {"returned", "later"}
    /\ ret' = Append(ret, check_rules(args.torrent, args.rules, now))
    /\ pc' = "again"
    /\ UNCHANGED <<variant, now, slept, environment, cfgfile, config, remote,
                   torrents, to_delete, calls, sent, log, args>>

NextRules ==
    \/ CallCheckRules
    \/ ClockAdvances
    \/ CallAgain

SpecRules == InitRules /\ [][NextRules]_vars

\* ------------------------- check_rules on one torrent, cycle after cycle
InitMono ==
    /\ variant = "file"
    /\ pc = "cycle"
    /\ now = MaxStat
    /\ slept = 0
    /\ RULES_ENV = <<>>
    /\ active_rules = <<>>
    /\ DRY_RUN = TRUE
    /\ DELETE_FILES = FALSE
    /\ CHECK_INTERVAL = DefaultInterval
    /\ cfgfile = "missing"
    /\ config = NoConfig
    /\ remote = {}
    /\ torrents = <<>>
    /\ to_delete = <<>>
    /\ calls = NoCalls
    /\ sent = <<>>
    /\ log = <<>>
    /\ args \in [torrent : Snapshots, rules : Policies]
    /\ ret = <<>>

\* process_torrents: check_rules(torrent, rule_set) decides for the torrent
FirstCycle ==
    /\ pc = "cycle"
    /\ ret' = <<check_rules(args.torrent, args.rules, now)>>
    /\ pc' = "cycled"
    /\ UNCHANGED <<variant, now, slept, environment, cfgfile, config, remote,
                   torrents, to_delete, calls, sent, log, args>>

\* what torrents_info() reports of a torrent that went on seeding, one
\* cycle later: the seeding time reported another way or longer, the ratio
\* one higher, or one more byte uploaded
Grown(torrent, t) ==
    {s \in Snapshots :
        \/ /\ s.ratio = torrent.ratio /\ s.uploaded = torrent.uploaded
           /\ seed_time(s, t) # None
           /\ seed_time(s, t)[1] >= seed_time(torrent, t)[1]
        \/ /\ s.seeding_time = torrent.seeding_time
           /\ s.completion_on = torrent.completion_on
           /\ \/ s.ratio = torrent.ratio + 1 /\ s.uploaded = torrent.uploaded
              \/ s.ratio = torrent.ratio /\ s.uploaded = torrent.uploaded + 1}

\* a later cycle: the torrent was selected, is still present (dry run), the
\* rules are the same; check_rules decides again
LaterCycle ==
    /\ pc \in {"cycled", "later"}
    /\ ret = <<Returned(TRUE)>>
    /\ \E t \in now..Min(now + 1, MaxStat + 1) :
         \E s \in IF t = now THEN Grown(args.torrent, now) ELSE {args.torrent} :
            /\ now' = t
            /\ slept' = t - now
            /\ args' = [args EXCEPT !.torrent = s]
            /\ ret' = <<check_rules(s, args.rules, t)>>
    /\ pc' = "later"
    /\ UNCHANGED <<variant, environment, cfgfile, config, remote, torrents,
                   to_delete, calls, sent, log>>

NextMono == FirstCycle \/ LaterCycle

SpecMono == InitMono /\ [][NextMono]_vars

\* ------------------------------------------- main.py: parse_rules alone
\* RULES strings of at most MaxBlocks comma-separated blocks
MaxBlocks == 3

Blocks ==
    { <<>>,
      <<"nopipe">>,
      <<"radarr", "|", "time > 2">>,
      <<"radarr", "|", "ratio > 1", "|", "seeds < 1">>,
      <<" ", "radarr", " ", "|", " ", "size > 0", " ">>,
      <<"lidarr", "|", "time > 2">>,
      <<"|", "seeds < 1">>,
      <<"lidarr", "|">> }

RECURSIVE Join(_, _)
Join(blocks, sep) ==
    IF blocks = <<>> THEN <<>>
    ELSE IF Len(blocks) = 1 THEN blocks[1]
    ELSE blocks[1] \o <<sep>> \o Join(Tail(blocks), sep)

RuleTexts ==
    {Join(bs, ",") : bs \in UNION {[1..n -> Blocks] : n \in 0..MaxBlocks}}

InitParse ==
    /\ variant = "env"
    /\ pc = "parse_rules"
    /\ now = 0
    /\ slept = 0
    /\ RULES_ENV \in RuleTexts
    /\ active_rules = <<>>
    /\ DRY_RUN = TRUE
    /\ DELETE_FILES = FALSE
    /\ CHECK_INTERVAL = DefaultInterval
    /\ cfgfile = "missing"
    /\ config = NoConfig
    /\ remote = {}
    /\ torrents = <<>>
    /\ to_delete = <<>>
    /\ calls = NoCalls
    /\ sent = <<>>
    /\ log = <<>>
    /\ args = <<>>
    /\ ret = <<>>

\* active_rules = parse_rules(RULES_ENV)
CallParseRules ==
    /\ pc = "parse_rules"
    /\ active_rules' = parse_rules(RULES_ENV)
    /\ pc' = "parsed"
    /\ UNCHANGED <<variant, now, slept, RULES_ENV, DRY_RUN, DELETE_FILES,
                   CHECK_INTERVAL, cfgfile, config, remote, torrents,
                   to_delete, calls, sent, log, standalone>>

SpecParse == InitParse /\ [][CallParseRules]_vars

\* ================================================================ claims
InLog(line) == \E i \in 1..Len(log) : log[i] = line
InBatch(h) == \E i \in 1..Len(to_delete) : to_delete[i].hash = h
Requested(h) ==
    \E k \in 1..Len(sent) : \E j \in 1..Len(sent[k].hashes) : sent[k].hashes[j] = h

\* the rule set of the running cycle has a policy for this category
\* (the category itself, or 'default' in the cleaner)
Ruled(cat) ==
    IF variant = "env" THEN cat \in DOMAIN active_rules
    ELSE cat \in DOMAIN config.rules \/ "default" \in DOMAIN config.rules

\* C1: a torrent of the snapshot with amount_left > 0 is never in the
\* deletion batch and its hash is never in a torrents_delete request,
\* in both programs, whatever its category and stats.
C1_IncompleteNeverSelected ==
    \A i \in 1..Len(torrents) :
        torrents[i].amount_left > 0 =>
            ~InBatch(torrents[i].hash) /\ ~Requested(torrents[i].hash)

\* a delete request went out in a cycle whose snapshot held an incomplete
\* torrent of a category that has a rule
C1_Witness ==
    /\ sent # <<>>
    /\ \E i \in 1..Len(torrents) :
          torrents[i].amount_left > 0 /\ Ruled(torrents[i].category)

\* C2: a torrent whose category is no key of the rule set, when the rule
\* set has no 'default' key, is never in the deletion batch (nor in a
\* delete request), in both programs.
C2_CategoryIsolation ==
    \A i \in 1..Len(torrents) :
        LET t == torrents[i]
            keys == IF variant = "env" THEN DOMAIN active_rules
                    ELSE DOMAIN config.rules
        IN  (t.category \notin keys /\ "default" \notin keys) =>
                ~InBatch(t.hash) /\ ~Requested(t.hash)

\* a non-empty batch was built from a snapshot holding a complete torrent
\* whose category has no rule, with no 'default' in the rule set
C2_Witness ==
    /\ to_delete # <<>>
    /\ \E i \in 1..Len(torrents) :
          /\ torrents[i].amount_left = 0
          /\ torrents[i].category = "lidarr"
          /\ ~Ruled(torrents[i].category)

\* C3: in a cycle with dry-run enabled no torrents_delete request is sent,
\* a non-empty batch is still reported ("Found N torrents to purge" is
\* logged before the dry-run line), and no step taken while dry-run is
\* enabled changes the torrents the remote client holds.
C3_DryRunNoDelete ==
    /\ [](dry_run => calls.delete = 0 /\ sent = <<>>)
    /\ [](InLog("dry_run") =>
             /\ to_delete # <<>>
             /\ \E i \in 1..Len(log) :
                   log[i] = "found" /\ \E j \in (i + 1)..Len(log) : log[j] = "dry_run")
    /\ [][dry_run => remote' = remote]_vars

\* a dry-run cycle reached its sleep with a non-empty batch
C3_Witness ==
    /\ pc = "sleep" /\ dry_run
    /\ to_delete # <<>>
    /\ InLog("dry_run")

\* ------------------------------------------------- check_rules (SpecRules)
\* the thresholds check_rules reads from the policy it was given
ArgMinTime == Get(args.rules, "min_seed_time", 0)
ArgMinRatio == Get(args.rules, "min_ratio", -1)
ArgMinVol == Get(args.rules, "min_volume_bytes", -1)
\* the effective seeding time check_rules computes (None: it has none)
ArgSeedTime == seed_time(args.torrent, now)
Called == pc = "returned"

\* C4: when the effective seeding time is less than min_seed_time,
\* check_rules returns False, whatever ratio, uploaded, min_ratio and
\* min_volume_bytes are; and it never returns True below the gate.
\* (A torrent for which the code computes no seeding time is C13's case.)
C4_TimeGate ==
    Called =>
        /\ (ArgSeedTime # None /\ ArgSeedTime[1] < ArgMinTime)
               => ret[1] = Returned(FALSE)
        /\ (~ret[1].raised /\ ret[1].value)
               => (ArgSeedTime # None /\ ArgSeedTime[1] >= ArgMinTime)

\* check_rules ran below the time gate with both thresholds met
C4_Witness ==
    /\ Called
    /\ ArgSeedTime # None /\ ArgSeedTime[1] < ArgMinTime
    /\ ArgMinRatio > 0 /\ args.torrent.ratio >= ArgMinRatio
    /\ ArgMinVol > 0 /\ args.torrent.uploaded >= ArgMinVol

\* C5 as claimed: with the time gate passed and at least one of min_ratio,
\* min_volume_bytes set (any value >= 0), the decision is True iff
\* (min_ratio set and ratio >= min_ratio) or (min_volume_bytes set and
\* uploaded >= min_volume_bytes).
C5_OrOfSetThresholds ==
    (/\ Called
     /\ ArgSeedTime # None /\ ArgSeedTime[1] >= ArgMinTime
     /\ (ArgMinRatio >= 0 \/ ArgMinVol >= 0))
    => /\ ~ret[1].raised
       /\ ret[1].value <=>
            \/ (ArgMinRatio >= 0 /\ args.torrent.ratio >= ArgMinRatio)
            \/ (ArgMinVol >= 0 /\ args.torrent.uploaded >= ArgMinVol)

\* C6: with the time gate passed and both min_ratio and min_volume_bytes
\* unset (-1, or the key absent), check_rules returns True for every ratio
\* and uploaded.
C6_TimeOnly ==
    (/\ Called
     /\ ArgSeedTime # None /\ ArgSeedTime[1] >= ArgMinTime
     /\ ArgMinRatio = -1 /\ ArgMinVol = -1)
    => ret[1] = Returned(TRUE)

\* check_rules ran with the gate passed, min_ratio absent, min_volume_bytes
\* -1, an unknown ratio and nothing uploaded
C6_Witness ==
    /\ Called
    /\ ArgSeedTime # None /\ ArgSeedTime[1] >= ArgMinTime /\ ArgMinTime > 0
    /\ "min_ratio" \notin DOMAIN args.rules
    /\ "min_volume_bytes" \in DOMAIN args.rules /\ ArgMinVol = -1
    /\ args.torrent.ratio = -1 /\ args.torrent.uploaded = 0

\* --------------------------------------------------------- the loops (Spec)
\* the for loop of this cycle has run and "now" is still what it read
Evaluated == pc \in {"execute", "sleep"} /\ (InLog("found") \/ InLog("none_matched"))

\* C7: main.py. A failing evaluation of a category's expression does not
\* raise out of evaluate_rule (the process does not stop), the torrent it
\* failed for is not in the deletion batch, and every other torrent of the
\* cycle that reaches evaluation is in the batch iff its expression is true.
C7_EvaluationFault ==
    variant = "env" =>
        /\ pc # "crashed"
        /\ Evaluated =>
              \A i \in 1..Len(torrents) :
                  LET t == torrents[i]
                  IN  /\ rule_error(t) => ~InBatch(t.hash)
                      /\ (/\ has_rule(t.category, active_rules)
                          /\ t.amount_left = 0
                          /\ ~rule_error(t))
                         => (InBatch(t.hash) <=>
                               py_eval(active_rules[t.category],
                                       gather_stats(t, now)).value)

\* a cycle in which one torrent's evaluation failed and another torrent was
\* selected
C7_Witness ==
    /\ variant = "env" /\ Evaluated /\ InLog("rule_error")
    /\ \E i \in 1..Len(torrents) : rule_error(torrents[i])
    /\ to_delete # <<>>

\* C8 as claimed: in both programs a failed torrents_delete is logged, no
\* second request follows in the cycle, and the cycle ends in the sleep.
C8_DeleteFailureSurvived ==
    (sent # <<>> /\ ~sent[Len(sent)].ok) =>
        /\ InLog("delete_error")
        /\ Len(sent) = 1 /\ calls.delete = 1
        /\ pc \in {"sleep", "loop"}

\* C9 as claimed: the scheduler has no terminated state; whatever succeeds
\* or fails in a cycle, the loop goes on to a sleep.
C9_NoTerminatedState == pc # "crashed"

\* C10: a cycle logs in at most once and asks for the torrents at most once;
\* after a failed login no torrents_info and no torrents_delete request is
\* sent, after a failed torrents_info nothing is evaluated and no
\* torrents_delete request is sent; either way the loop is at its sleep.
C10_AbandonedCycle ==
    /\ calls.auth <= 1 /\ calls.info <= 1
    /\ InLog("connect_failed") =>
          /\ calls.info = 0 /\ calls.delete = 0 /\ sent = <<>>
          /\ torrents = <<>> /\ to_delete = <<>>
          /\ pc \in {"sleep", "loop"}
    /\ InLog("fetch_failed") =>
          /\ calls.auth = 1 /\ calls.info = 1
          /\ calls.delete = 0 /\ sent = <<>>
          /\ torrents = <<>> /\ to_delete = <<>>
          /\ ~InLog("found") /\ ~InLog("none_matched")
          /\ pc \in {"sleep", "loop"}

\* the login succeeded, torrents_info failed, and the client holds torrents
C10_Witness ==
    /\ pc = "sleep" /\ InLog("fetch_failed")
    /\ remote # {}

\* the decision the running program takes for a torrent of the snapshot:
\* complete, a policy resolved for its category, and the policy decided true
Decided(t) ==
    /\ t.amount_left = 0
    /\ IF variant = "env"
       THEN /\ t.category \in DOMAIN active_rules
            /\ LET r == py_eval(active_rules[t.category], gather_stats(t, now))
               IN  ~r.raised /\ r.value
       ELSE LET rule_set == resolve_rule_set(t.category, config.rules)
            IN  /\ ~no_rule_set(rule_set)
                /\ LET r == check_rules(t, rule_set[1], now)
                   IN  ~r.raised /\ r.value

\* the for loop of this cycle completed and the clock has not moved since
LoopDone ==
    /\ pc \in {"execute", "sleep", "crashed"}
    /\ (InLog("found") \/ InLog("none_matched"))

\* C11: in a cycle that is not in dry-run, a non-empty batch leads to exactly
\* one torrents_delete request; its hashes are exactly those of the torrents
\* of this cycle's snapshot that are complete, resolve to a policy and are
\* decided true, and it carries the configured delete_files flag; an empty
\* batch leads to no request.
C11_OneExactRequest ==
    /\ Len(sent) <= 1 /\ calls.delete = Len(sent)
    /\ InLog("none_matched") => sent = <<>>
    /\ (pc \in {"sleep", "crashed"} /\ InLog("found") /\ ~dry_run) => Len(sent) = 1
    /\ (LoopDone /\ sent # <<>>) =>
          /\ ~dry_run
          /\ sent[1].hashes =
                hashes_of(SelectSeq(torrents, LAMBDA t : Decided(t)))
          /\ sent[1].delete_files =
                (IF variant = "env" THEN DELETE_FILES
                 ELSE Get(config.settings, "delete_files", FALSE))

\* a request with delete_files set went out for a part of a snapshot of
\* two torrents
C11_Witness ==
    /\ pc = "sleep" /\ Len(sent) = 1
    /\ sent[1].delete_files
    /\ Len(torrents) = 2 /\ Len(sent[1].hashes) = 1

\* the last torrents_delete request of this cycle failed and named h
FailedFor(h) ==
    /\ sent # <<>> /\ ~sent[Len(sent)].ok
    /\ \E j \in 1..Len(sent[Len(sent)].hashes) : sent[Len(sent)].hashes[j] = h

\* C12 as claimed: in both programs, after a failed torrents_delete the
\* next cycle takes place and selects the torrents of the failed batch
\* again, so that, when requests to the remote client eventually succeed,
\* every torrent of the failed batch is eventually removed.
C12_FailedBatchRetried ==
    \A h \in Hashes : [](FailedFor(h) => <>(h \notin remote))

\* the effective seeding time as claimed: seeding_time when it is present
\* and not 0, else now - completion_on when that is present, else 0
ClaimedSeedTime(torrent, t) ==
    IF Truthy(torrent.seeding_time) THEN torrent.seeding_time[1]
    ELSE IF Truthy(torrent.completion_on) THEN t - torrent.completion_on[1]
    ELSE 0

\* C13 as claimed (check_rules): for every completed torrent check_rules
\* does not raise and decides on the claimed effective seeding time; with
\* neither seeding_time nor completion_on it returns False when
\* min_seed_time > 0 and the result of steps 2/3 when min_seed_time = 0.
C13_NeverRaises ==
    Called =>
        /\ ~ret[1].raised
        /\ ClaimedSeedTime(args.torrent, now) < ArgMinTime => ~ret[1].value
        /\ ClaimedSeedTime(args.torrent, now) >= ArgMinTime =>
              (ret[1].value <=>
                  \/ only_time(ArgMinRatio, ArgMinVol)
                  \/ threshold_met(ArgMinRatio, args.torrent.ratio)
                  \/ threshold_met(ArgMinVol, args.torrent.uploaded))

CalledTwice == pc = "again"

\* C14 as claimed: two evaluations of the same torrent and policy give the
\* same outcome at whatever moments they take place.
C14_SameDecisionAnyTime == CalledTwice => ret[2] = ret[1]

\* C14 amended: the outcome depends on the torrent and the policy alone when
\* seeding_time is present and not 0, or completion_on is absent or 0;
\* otherwise check_rules reads the clock, and two evaluations agree when no
\* time has passed between them.
C14_SameDecisionUnlessClockRead ==
    CalledTwice =>
        /\ (Truthy(args.torrent.seeding_time) \/ ~Truthy(args.torrent.completion_on))
              => ret[2] = ret[1]
        /\ slept = 0 => ret[2] = ret[1]

\* the second evaluation came later, for a torrent reporting both a seeding
\* time and a completion time, and the time gate was open
C14_Witness ==
    /\ CalledTwice /\ slept = 1
    /\ Truthy(args.torrent.seeding_time) /\ Truthy(args.torrent.completion_on)
    /\ ArgMinTime > 0
    /\ ret[1] = Returned(TRUE) /\ ret[2] = Returned(TRUE)

\* C15 as claimed (cleaner): a completed torrent is evaluated against the
\* policy of its category when the category is a key of the rules map, else
\* against 'default' when that is a key, else it is skipped; it is in the
\* deletion batch iff check_rules is true for that policy, whatever the
\* policy holds (also one that sets no threshold).
C15_ResolvedPolicyDecides ==
    (variant = "file" /\ LoopDone) =>
        \A i \in 1..Len(torrents) :
            LET t == torrents[i]
                keys == DOMAIN config.rules
            IN  t.amount_left = 0 =>
                  IF t.category \in keys
                  THEN InBatch(t.hash) <=>
                          check_rules(t, config.rules[t.category], now).value
                  ELSE IF "default" \in keys
                  THEN InBatch(t.hash) <=>
                          check_rules(t, config.rules["default"], now).value
                  ELSE ~InBatch(t.hash)

\* the rule set of the running cycle is empty
EmptyRules ==
    IF variant = "env" THEN active_rules = <<>> ELSE config.rules = <<>>

\* C16 as claimed: with an empty rule set a cycle sends nothing to the remote
\* client (no login, no torrents_info, no torrents_delete), in main.py and
\* in the cleaner (empty 'rules').
C16_EmptyRulesNoOp ==
    EmptyRules => calls = NoCalls /\ sent = <<>>

\* C17: the cleaner reads the configuration once at the top of each cycle
\* (the file as it is then) and the cycle uses the values read then for
\* rules, dry_run, delete_files and check_interval, whatever happens to the
\* file during the cycle; main.py's rules, interval, dry-run and delete-files
\* are read once and never change.
C17_ConfigPerCycle ==
    /\ [][variant = "file" =>
            /\ (pc = "loop" /\ pc' = "connect") => config' = safe_load(cfgfile)
            /\ ~(pc = "loop" /\ pc' = "connect") => config' = config
            /\ (pc = "sleep" /\ pc' = "loop") =>
                  slept' = Get(config.settings, "check_interval", DefaultInterval)]_vars
    /\ []((variant = "file" /\ sent # <<>>) =>
            /\ ~Get(config.settings, "dry_run", TRUE)
            /\ sent[1].delete_files = Get(config.settings, "delete_files", FALSE))
    /\ []((variant = "file" /\ LoopDone) =>
            hashes_of(to_delete) = hashes_of(SelectSeq(torrents, LAMBDA t : Decided(t))))
    /\ [][environment' = environment]_vars
    /\ [](active_rules = parse_rules(RULES_ENV))
    /\ [](variant = "env" /\ sent # <<>> => ~DRY_RUN)
    /\ [][(variant = "env" /\ pc = "sleep" /\ pc' = "loop") =>
            slept' = CHECK_INTERVAL]_vars

\* a delete request of the cleaner went out under the configuration read
\* at the top of the cycle while the file now asks for dry-run, other rules
\* and another interval
C17_Witness ==
    /\ variant = "file" /\ pc = "sleep" /\ Len(sent) = 1
    /\ cfgfile = "B"
    /\ "check_interval" \in DOMAIN config.settings
    /\ config.settings["check_interval"] = 1

\* C18: in main.py, whatever string parse_rules was given, a torrent whose
\* category is the empty string is never placed in the deletion batch.
C18_EmptyCategoryNeverSelected ==
    variant = "env" =>
        \A i \in DOMAIN to_delete : to_delete[i].category # ""

\* the comma-separated blocks of the RULES string, those holding a pipe, and
\* the text before and after the first pipe of a block
BlocksOf == Split(RULES_ENV, ",")
Piped == {i \in DOMAIN BlocksOf : \E j \in DOMAIN BlocksOf[i] : BlocksOf[i][j] = "|"}
FirstPipe(i) ==
    CHOOSE j \in DOMAIN BlocksOf[i] :
        BlocksOf[i][j] = "|" /\ \A k \in 1..(j - 1) : BlocksOf[i][k] # "|"
CatOf(i) == Text(Strip(SubSeq(BlocksOf[i], 1, FirstPipe(i) - 1)))
ExprOf(i) ==
    Text(Strip(SubSeq(BlocksOf[i], FirstPipe(i) + 1, Len(BlocksOf[i]))))
LastOf(c) ==
    CHOOSE i \in Piped : CatOf(i) = c /\ \A k \in Piped : CatOf(k) = c => k <= i

\* C19: parse_rules maps each category to the expression of the last block
\* carrying it, every block being cut at its first pipe only; a block
\* without a pipe adds no entry and its siblings are still parsed; the empty
\* string gives the empty rule set.
C19_ParseRules ==
    pc = "parsed" =>
        /\ DOMAIN active_rules = {CatOf(i) : i \in Piped}
        /\ \A c \in DOMAIN active_rules : active_rules[c] = ExprOf(LastOf(c))
        /\ RULES_ENV = <<>> => DOMAIN active_rules = {}

\* a string was parsed that has a block without a pipe, then two blocks of
\* the same category, the later one with a second pipe in its expression
C19_Witness ==
    /\ pc = "parsed"
    /\ BlocksOf = << <<"nopipe">>, <<"radarr", "|", "time > 2">>,
                     <<"radarr", "|", "ratio > 1", "|", "seeds < 1">> >>
    /\ DOMAIN active_rules = {"radarr"}
    /\ active_rules["radarr"] = "ratio > 1|seeds < 1"

\* the torrent's stats did not shrink over the step and the rules are the same
NotShrunk ==
    /\ args'.rules = args.rules
    /\ seed_time(args.torrent, now) # None
    /\ seed_time(args'.torrent, now') # None
    /\ seed_time(args'.torrent, now')[1] >= seed_time(args.torrent, now)[1]
    /\ args'.torrent.ratio >= args.torrent.ratio
    /\ args'.torrent.uploaded >= args.torrent.uploaded

\* C20: check_rules is monotone: a completed torrent for which it returned
\* True is decided True again in a later cycle under the same rules when its
\* effective seeding time, ratio and uploaded bytes are each at least what
\* they were, so a selected torrent that stays present stays selected.
C20_Monotone ==
    [][(ret = <<Returned(TRUE)>> /\ pc' = "later" /\ NotShrunk)
          => ret' = <<Returned(TRUE)>>]_vars

\* a torrent selected on its ratio and on a seeding time taken from the
\* clock is selected again a cycle later, after the clock has moved
C20_Witness ==
    /\ pc = "later" /\ slept = 1
    /\ ret = <<Returned(TRUE)>>
    /\ ~Truthy(args.torrent.seeding_time) /\ Truthy(args.torrent.completion_on)
    /\ Get(args.rules, "min_seed_time", 0) > 0
    /\ Get(args.rules, "min_ratio", -1) > 0
    /\ args.torrent.ratio >= Get(args.rules, "min_ratio", -1)

====
